---- MODULE Spec2Model ----
(***************************************************************************)
(* A model of licenses.py: the go.mod and package.json parsers, the two    *)
(* filesystem license locators, the license table (read_license) and main. *)
(* Strings are sequences of one-character strings, so that strip, split,   *)
(* startswith, endswith, lower and the path f-strings are computed as the  *)
(* code computes them.                                                     *)
(***************************************************************************)
EXTENDS Integers, Sequences, FiniteSets, TLC

VARIABLES
    \* parse_pkgs_go_mod: the lines of the file, the loop position, its locals
    gm_lines, gm_ignores, gm_i, in_require, pkgs,
    \* find_go_pkg_license_via_fs: arguments, the files that exist, the result
    gf_pkg, gf_ver, gf_files, gf_ret,
    \* parse_npm_package_json: the loaded JSON object, the ignores, the result
    np_info, np_ignores, np_ret,
    \* the process: filesystem, main's arguments and locals, the globals
    fs, files, ignore_go_pkgs, ignore_npm_pkgs,
    pc, err, fidx, cur, todo, go_pkgs, npm_pkgs,
    ALL_LICENSES, LINCESE_SEQ,
    stdout, written,
    \* history: one entry per locator call of main / per read_license call
    lookups, calls

gmVars == <<gm_lines, gm_ignores, gm_i, in_require, pkgs>>
gfVars == <<gf_pkg, gf_ver, gf_files, gf_ret>>
npVars == <<np_info, np_ignores, np_ret>>
envVars == <<fs, files, ignore_go_pkgs, ignore_npm_pkgs>>
tableVars == <<ALL_LICENSES, LINCESE_SEQ>>
mainVars == <<pc, err, fidx, cur, todo, go_pkgs, npm_pkgs, stdout, written, lookups>>
vars == <<gmVars, gfVars, npVars, envVars, tableVars, mainVars, calls>>

-----------------------------------------------------------------------------
\* Bounds of the model.

\* lines in a go.mod file handed to the parser
MaxLines == 4
\* characters in a module name handed to the go locator
MaxNameLen == 3
\* manifest paths on main's command line
MaxFiles == 2
\* read_license calls in a sequence
MaxCalls == 3

-----------------------------------------------------------------------------
\* Python's str operations, on sequences of characters.

\* None, as a value no string of characters equals
None == <<"None">>

\* `not x` for x a str or None
Not(x) == x = None \/ x = <<>>

Range(s) == {s[i] : i \in 1..Len(s)}

\* str.isspace() for the characters the model uses
Whitespace == {" ", "\t", "\n", "\r"}

UpperCase == {"A","B","C","D","E","F","G","H","I","J","K","L","M",
              "N","O","P","Q","R","S","T","U","V","W","X","Y","Z"}

\* c.lower()
LowerOf(c) ==
    CASE c = "A" -> "a" [] c = "B" -> "b" [] c = "C" -> "c" [] c = "D" -> "d"
      [] c = "E" -> "e" [] c = "F" -> "f" [] c = "G" -> "g" [] c = "H" -> "h"
      [] c = "I" -> "i" [] c = "J" -> "j" [] c = "K" -> "k" [] c = "L" -> "l"
      [] c = "M" -> "m" [] c = "N" -> "n" [] c = "O" -> "o" [] c = "P" -> "p"
      [] c = "Q" -> "q" [] c = "R" -> "r" [] c = "S" -> "s" [] c = "T" -> "t"
      [] c = "U" -> "u" [] c = "V" -> "v" [] c = "W" -> "w" [] c = "X" -> "x"
      [] c = "Y" -> "y" [] c = "Z" -> "z" [] OTHER -> c

\* s.lower()
Lower(s) == [i \in 1..Len(s) |-> LowerOf(s[i])]

\* s.startswith(p)
StartsWith(s, p) == Len(p) <= Len(s) /\ SubSeq(s, 1, Len(p)) = p

\* s.endswith(p)
EndsWith(s, p) == Len(p) <= Len(s) /\ SubSeq(s, Len(s) - Len(p) + 1, Len(s)) = p

\* s.strip(): leading and trailing whitespace removed
RECURSIVE LStrip(_)
LStrip(s) == IF s # <<>> /\ s[1] \in Whitespace THEN LStrip(Tail(s)) ELSE s

RECURSIVE RStrip(_)
RStrip(s) ==
    IF s # <<>> /\ s[Len(s)] \in Whitespace
    THEN RStrip(SubSeq(s, 1, Len(s) - 1)) ELSE s

Strip(s) == RStrip(LStrip(s))

\* s.split(sep) for a one-character sep: empty parts are kept
RECURSIVE SplitFrom(_, _, _, _)
SplitFrom(s, sep, i, part) ==
    IF i > Len(s) THEN <<part>>
    ELSE IF s[i] = sep THEN <<part>> \o SplitFrom(s, sep, i + 1, <<>>)
    ELSE SplitFrom(s, sep, i + 1, Append(part, s[i]))

Split(s, sep) == SplitFrom(s, sep, 1, <<>>)

NonEmpty(x) == x # <<>>

\* os.path.dirname(p): p up to its last "/", trailing slashes removed unless
\* the head is nothing but slashes
LastSlash(p) ==
    IF \E i \in 1..Len(p) : p[i] = "/"
    THEN CHOOSE i \in 1..Len(p) : p[i] = "/" /\ \A j \in (i+1)..Len(p) : p[j] # "/"
    ELSE 0

RECURSIVE RStripSlash(_)
RStripSlash(s) ==
    IF s # <<>> /\ s[Len(s)] = "/" THEN RStripSlash(SubSeq(s, 1, Len(s) - 1)) ELSE s

Dirname(p) ==
    LET head == SubSeq(p, 1, LastSlash(p))
    IN IF head # <<>> /\ \E i \in 1..Len(head) : head[i] # "/"
       THEN RStripSlash(head) ELSE head

-----------------------------------------------------------------------------
\* String literals of the source.

s_indirect == <<"/","/"," ","i","n","d","i","r","e","c","t">>
s_comment == <<"/","/">>
s_require == <<"r","e","q","u","i","r","e">>
s_close == <<")">>
s_LICENSE == <<"L","I","C","E","N","S","E">>
s_txt == <<".","t","x","t">>
s_md == <<".","m","d">>
s_go_mod == <<"g","o",".","m","o","d">>
s_package_json == <<"p","a","c","k","a","g","e",".","j","s","o","n">>
s_node_modules == <<"n","o","d","e","_","m","o","d","u","l","e","s">>
s_mit == <<"m","i","t">>
s_apache == <<"a","p","a","c","h","e","-","2",".","0">>
s_mit_license == <<"m","i","t",".","l","i","c","e","n","s","e">>
s_apache_license == <<"a","p","a","c","h","e",".","2",".","0",".","l","i","c","e","n","s","e">>

-----------------------------------------------------------------------------
\* parse_pkgs_go_mod

GoPkg(name, version, tag) == [name |-> name, version |-> version, tag |-> tag]

\* append_pkg without the `if ignores and pkg in ignores: return`
append_pkg_no_ignore(acc, line, ignores) ==
    LET indirect == EndsWith(line, s_indirect)
        parts == SelectSeq(Split(line, " "), NonEmpty)
    IN IF Len(parts) < 2 THEN acc
       ELSE Append(acc, GoPkg(parts[1], parts[2],
                              IF indirect THEN "indirect" ELSE "direct"))

\* append_pkg(line): the list of packages after the call
append_pkg(acc, line, ignores) ==
    LET indirect == EndsWith(line, s_indirect)
        parts == SelectSeq(Split(line, " "), NonEmpty)
    IN IF Len(parts) < 2 THEN acc
       ELSE IF ignores # <<>> /\ parts[1] \in Range(ignores) THEN acc
       ELSE Append(acc, GoPkg(parts[1], parts[2],
                              IF indirect THEN "indirect" ELSE "direct"))

\* one iteration of the loop over the lines of the file, on the loop's state
\* st = [in_require, pkgs]
GoModLine(st, raw, ignores) ==
    LET line == Strip(raw)
    IN IF line = <<>> THEN st
       ELSE IF StartsWith(line, s_comment) THEN st
       ELSE IF ~st.in_require
            THEN (IF StartsWith(line, s_require)
                  THEN [st EXCEPT !.in_require = TRUE] ELSE st)
       ELSE IF line = s_close THEN [st EXCEPT !.in_require = FALSE]
       ELSE [st EXCEPT !.pkgs = append_pkg(st.pkgs, line, ignores)]

RECURSIVE GoModLoop(_, _, _, _)
GoModLoop(st, lines, i, ignores) ==
    IF i > Len(lines) THEN st
    ELSE GoModLoop(GoModLine(st, lines[i], ignores), lines, i + 1, ignores)

\* parse_pkgs_go_mod(fp, ignores), on the lines of the file at fp
parse_pkgs_go_mod(lines, ignores) ==
    GoModLoop([in_require |-> FALSE, pkgs |-> <<>>], lines, 1, ignores).pkgs

\* The lines a go.mod file is drawn from (as read, before strip).
l_blank == <<>>
l_cmt == <<"/","/"," ","c">>
l_open == <<"r","e","q","u","i","r","e"," ","(">>
l_close == <<")">>
l_dep_a == <<"\t","a"," ","v","1">>
l_dep_b == <<"b"," "," ","v","2"," ","/","/"," ","i","n","d","i","r","e","c","t">>
l_one == <<"c">>
l_tab == <<"a","\t","v","1">>

GoLines == {l_blank, l_cmt, l_open, l_close, l_dep_a, l_dep_b, l_one, l_tab}

SeqsUpTo(S, n) == UNION {[1..k -> S] : k \in 0..n}

GoModInit ==
    /\ gm_lines \in SeqsUpTo(GoLines, MaxLines)
    /\ gm_ignores \in {<<>>, << <<"a">> >>}
    /\ gm_i = 1
    /\ in_require = FALSE
    /\ pkgs = <<>>

GoModIdle ==
    /\ gm_lines = <<>>
    /\ gm_ignores = <<>>
    /\ gm_i = 1
    /\ in_require = FALSE
    /\ pkgs = <<>>

\* the body of `for line in f` for the next line
GoModStep ==
    /\ gm_i <= Len(gm_lines)
    /\ LET st == GoModLine([in_require |-> in_require, pkgs |-> pkgs],
                           gm_lines[gm_i], gm_ignores)
       IN /\ in_require' = st.in_require
          /\ pkgs' = st.pkgs
    /\ gm_i' = gm_i + 1
    /\ UNCHANGED <<gm_lines, gm_ignores>>
    /\ UNCHANGED <<gfVars, npVars, envVars, tableVars, mainVars, calls>>

-----------------------------------------------------------------------------
\* find_go_pkg_license_via_fs

\* _go_lower_case without the "!" before a lowered letter
_go_lower_case_no_bang(txt) == Lower(txt)

\* _go_lower_case(txt)
RECURSIVE _go_lower_case(_)
_go_lower_case(txt) ==
    IF txt = <<>> THEN <<>>
    ELSE (IF Head(txt) \in UpperCase
          THEN <<"!", LowerOf(Head(txt))>>
          ELSE <<Head(txt)>>) \o _go_lower_case(Tail(txt))

\* gomodcache: the directory `go env GOMODCACHE` printed at import
gomodcache == <<"/","c">>

\* the loop `for part in parts: fspath = f"{fspath}/{_go_lower_case(part)}"`
RECURSIVE GoFsPath(_, _)
GoFsPath(fspath, parts) ==
    IF parts = <<>> THEN fspath
    ELSE GoFsPath(fspath \o <<"/">> \o _go_lower_case(Head(parts)), Tail(parts))

\* the extensions tried after the bare LICENSE, in the order of the list
LicenseExts == <<s_txt, s_md>>

\* the loop `for ext in [".txt", ".md"]` over candidates prefix + ext
RECURSIVE FirstExt(_, _, _)
FirstExt(prefix, exts, isfile) ==
    IF exts = <<>> THEN None
    ELSE IF (prefix \o Head(exts)) \in isfile THEN prefix \o Head(exts)
    ELSE FirstExt(prefix, Tail(exts), isfile)

\* find_go_pkg_license_via_fs(pkg, ver); isfile is the set of paths that are files
find_go_pkg_license_via_fs(pkg, ver, isfile) ==
    LET fspath == GoFsPath(gomodcache, Split(pkg, "/"))
        license == fspath \o <<"@">> \o ver \o <<"/">> \o s_LICENSE
    IN IF license \in isfile THEN license
       ELSE FirstExt(license, LicenseExts, isfile)

\* fetch_go_pkg_license_via_network / find_npm_pkg_license_via_network:
\* the exception the call raises ("" when it returns) and what it returns
fetch_via_network == [exc |-> "NotImplementedError", ret |-> None]

\* Inputs of the locator: names over an upper-case letter, a lower-case letter
\* and the separator; files under the escaped directory and under two
\* directories an escaping other than the module cache's would give.
NameChars == {"F", "b", "/"}
v1 == <<"v","1">>

\* the module cache's escaping of a name: "!" and the lower-case letter for
\* every upper-case letter, every other character as it is
RECURSIVE ModCacheEscape(_)
ModCacheEscape(name) ==
    IF name = <<>> THEN <<>>
    ELSE LET n == Len(name)
             c == name[n]
         IN ModCacheEscape(SubSeq(name, 1, n - 1))
            \o (IF c \in UpperCase THEN <<"!", LowerOf(c)>> ELSE <<c>>)

GoDirBang(pkg, ver) ==
    gomodcache \o <<"/">> \o ModCacheEscape(pkg) \o <<"@">> \o ver \o <<"/">>
GoDirLower(pkg, ver) ==
    gomodcache \o <<"/">> \o Lower(pkg) \o <<"@">> \o ver \o <<"/">>
GoDirPlain(pkg, ver) ==
    gomodcache \o <<"/">> \o pkg \o <<"@">> \o ver \o <<"/">>

LicenseNames == {s_LICENSE, s_LICENSE \o s_txt, s_LICENSE \o s_md}

GoFsInit ==
    /\ gf_pkg \in SeqsUpTo(NameChars, MaxNameLen)
    /\ gf_ver = v1
    /\ \E names \in SUBSET LicenseNames, lower \in BOOLEAN, plain \in BOOLEAN :
          gf_files = {GoDirBang(gf_pkg, gf_ver) \o n : n \in names}
                     \cup (IF lower THEN {GoDirLower(gf_pkg, gf_ver) \o s_LICENSE} ELSE {})
                     \cup (IF plain THEN {GoDirPlain(gf_pkg, gf_ver) \o s_LICENSE} ELSE {})
    /\ gf_ret = <<"unset">>

GoFsIdle ==
    /\ gf_pkg = <<>>
    /\ gf_ver = <<>>
    /\ gf_files = {}
    /\ gf_ret = <<"unset">>

\* a call of find_go_pkg_license_via_fs
GoFsCall ==
    /\ gf_ret = <<"unset">>
    /\ gf_ret' = find_go_pkg_license_via_fs(gf_pkg, gf_ver, gf_files)
    /\ UNCHANGED <<gf_pkg, gf_ver, gf_files>>
    /\ UNCHANGED <<gmVars, npVars, envVars, tableVars, mainVars, calls>>

-----------------------------------------------------------------------------
\* parse_npm_package_json

NpmPkg(name, tag) == [name |-> name, tag |-> tag]

\* JSON values: an object is the sequence of its keys, in document order
JDict(keys) == [type |-> "dict", keys |-> keys]
JList == [type |-> "list", keys |-> <<>>]

\* info.get(key, default)
DictGet(info, key, default) == IF key \in DOMAIN info THEN info[key] ELSE default

\* `for name in d.keys(): if ignores and name in ignores: continue; append`
NpmRecords(keys, tag, ignores) ==
    LET Kept(name) == ~(ignores # <<>> /\ name \in Range(ignores))
        kept == SelectSeq(keys, Kept)
    IN [i \in 1..Len(kept) |-> NpmPkg(kept[i], tag)]

\* parse_npm_package_json(fp, ignores), on the object json.load gave:
\* the exception raised ("" when it returns) and the list returned
parse_npm_package_json(info, ignores) ==
    LET deps == DictGet(info, "dependencies", JList)
        dev_deps == DictGet(info, "devDependencies", JList)
    IN IF deps.type # "dict" THEN [exc |-> "AttributeError", ret |-> <<>>]
       ELSE IF dev_deps.type # "dict" THEN [exc |-> "AttributeError", ret |-> <<>>]
       ELSE [exc |-> "",
             ret |-> NpmRecords(deps.keys, "deps", ignores)
                     \o NpmRecords(dev_deps.keys, "dev-deps", ignores)]

n_p == <<"p">>
n_q == <<"q">>
n_r == <<"r">>

\* key lists without repetition (JSON object keys are distinct)
KeyLists(S) == {k \in SeqsUpTo(S, Cardinality(S)) :
                  \A i, j \in 1..Len(k) : i # j => k[i] # k[j]}

NpmInfos ==
    UNION {[F -> {JDict(k) : k \in KeyLists({n_p, n_q})}] :
             F \in SUBSET {"dependencies", "devDependencies"}}

NpmInit ==
    /\ np_info \in NpmInfos
    /\ np_ignores \in {<<>>, <<n_p>>, <<n_q, n_r>>}
    /\ np_ret = [exc |-> "unset", ret |-> <<>>]

NpmIdle ==
    /\ np_info = <<>>
    /\ np_ignores = <<>>
    /\ np_ret = [exc |-> "unset", ret |-> <<>>]

\* a call of parse_npm_package_json
NpmCall ==
    /\ np_ret.exc = "unset"
    /\ np_ret' = parse_npm_package_json(np_info, np_ignores)
    /\ UNCHANGED <<np_info, np_ignores>>
    /\ UNCHANGED <<gmVars, gfVars, envVars, tableVars, mainVars, calls>>

-----------------------------------------------------------------------------
\* The filesystem: a function from the paths that are files to the file. A file
\* carries what the program reads of it: its text (read_license), the license
\* field of a package descriptor (None when it has none), the lines of a
\* go.mod, the object of a package.json manifest.

TextFile(t) == [text |-> t, license |-> None, lines |-> <<>>, info |-> <<>>]
Descriptor(l) == [text |-> <<>>, license |-> l, lines |-> <<>>, info |-> <<>>]
GoModFile(ls) == [text |-> <<>>, license |-> None, lines |-> ls, info |-> <<>>]
PackageJson(o) == [text |-> <<>>, license |-> None, lines |-> <<>>, info |-> o]

\* the function with the one pair p :> f, and the union of two file maps
One(p, f) == [x \in {p} |-> f]
Merge(f, g) == [x \in DOMAIN f \cup DOMAIN g |-> IF x \in DOMAIN f THEN f[x] ELSE g[x]]

-----------------------------------------------------------------------------
\* read_license and the license table

\* what ALL_LICENSES.get(content) gives for a missing key: None, which
\* `if not lid` treats as it treats 0
NoId == 0

\* ALL_LICENSES: the items of the dict, in insertion order
TableGet(table, content) ==
    IF \E i \in 1..Len(table) : table[i].content = content
    THEN table[CHOOSE i \in 1..Len(table) : table[i].content = content].id
    ELSE NoId

\* ALL_LICENSES[content] = id
TablePut(table, content, id) ==
    IF \E i \in 1..Len(table) : table[i].content = content
    THEN [i \in 1..Len(table) |->
            IF table[i].content = content THEN [table[i] EXCEPT !.id = id] ELSE table[i]]
    ELSE Append(table, [content |-> content, id |-> id])

\* read_content without the .strip()
read_content_no_strip(fp, fsys) ==
    IF fp \in DOMAIN fsys THEN fsys[fp].text ELSE fp

\* the content read_license keys the table with
read_content(fp, fsys) ==
    IF fp \in DOMAIN fsys THEN Strip(fsys[fp].text) ELSE fp

\* read_license without the `LINCESE_SEQ += 1`
read_license_no_increment(fp, fsys, table, seq) ==
    LET content == read_content(fp, fsys)
        lid == TableGet(table, content)
    IN IF lid = NoId
       THEN [lid |-> seq, table |-> TablePut(table, content, seq), seq |-> seq]
       ELSE [lid |-> lid, table |-> table, seq |-> seq]

\* read_license(fp): the id returned and the globals after the call
read_license(fp, fsys, table, seq) ==
    LET content == read_content(fp, fsys)
        lid == TableGet(table, content)
    IN IF lid = NoId
       THEN [lid |-> seq + 1, table |-> TablePut(table, content, seq + 1), seq |-> seq + 1]
       ELSE [lid |-> lid, table |-> table, seq |-> seq]

TableInit ==
    /\ ALL_LICENSES = <<>>
    /\ LINCESE_SEQ = 1

\* Arguments of read_license: four paths that may or may not be files (texts
\* that differ in surrounding whitespace only, another text, an empty file)
\* and a string that is never a file.
f_1 == <<"f","1">>
f_2 == <<"f","2">>
f_3 == <<"f","3">>
f_4 == <<"f","4">>
t_T == <<"T">>

ReadFiles ==
    Merge(One(f_1, TextFile(<<" ","T","\n">>)),
    Merge(One(f_2, TextFile(<<"T">>)),
    Merge(One(f_3, TextFile(<<"U"," ">>)),
          One(f_4, TextFile(<<"\n">>)))))

ReadArgs == {f_1, f_2, f_3, f_4, t_T}

Restrict(f, S) == [x \in S |-> f[x]]

ReadInit ==
    /\ \E present \in SUBSET DOMAIN ReadFiles : fs = Restrict(ReadFiles, present)
    /\ files = <<>>
    /\ ignore_go_pkgs = <<>>
    /\ ignore_npm_pkgs = <<>>
    /\ TableInit
    /\ calls = <<>>

\* a call of read_license
ReadCall ==
    /\ Len(calls) < MaxCalls
    /\ \E fp \in ReadArgs :
         LET r == read_license(fp, fs, ALL_LICENSES, LINCESE_SEQ)
         IN /\ ALL_LICENSES' = r.table
            /\ LINCESE_SEQ' = r.seq
            /\ calls' = Append(calls, [fp |-> fp, lid |-> r.lid,
                                       before |-> Len(ALL_LICENSES),
                                       after |-> Len(r.table)])
    /\ UNCHANGED <<gmVars, gfVars, npVars, envVars, mainVars>>

-----------------------------------------------------------------------------
\* find_npm_pkg_license_via_fs

\* os.path.dirname(__file__): the directory the tool and its two bundled
\* license files are in
ToolDir == <<"/","t">>

\* os.path.join(a, b) for a relative b
PathJoin(a, b) ==
    IF a = <<>> \/ a[Len(a)] = "/" THEN a \o b ELSE a \o <<"/">> \o b

Printed(msg, arg) == [msg |-> msg, arg |-> arg]

\* find_npm_pkg_license_via_fs comparing the license field without .lower()
find_npm_pkg_license_via_fs_case(pkgjsonfp, pkg, fsys) ==
    LET root == Dirname(pkgjsonfp)
        dir == root \o <<"/">> \o s_node_modules \o <<"/">> \o pkg \o <<"/">>
        license == dir \o s_LICENSE
        other == FirstExt(license, LicenseExts, DOMAIN fsys)
        pkgjson == dir \o s_package_json
        name == IF pkgjson \in DOMAIN fsys THEN fsys[pkgjson].license ELSE None
    IN IF license \in DOMAIN fsys THEN [ret |-> license, out |-> <<>>]
       ELSE IF other # None THEN [ret |-> other, out |-> <<>>]
       ELSE IF pkgjson \in DOMAIN fsys /\ ~Not(name)
            THEN (IF name = s_mit
                  THEN [ret |-> PathJoin(ToolDir, s_mit_license), out |-> <<>>]
                  ELSE IF name = s_apache
                  THEN [ret |-> PathJoin(ToolDir, s_apache_license), out |-> <<>>]
                  ELSE [ret |-> name, out |-> <<Printed("license name", name)>>])
       ELSE [ret |-> None, out |-> <<>>]

\* find_npm_pkg_license_via_fs(pkgjsonfp, pkg): what it returns and what it prints
find_npm_pkg_license_via_fs(pkgjsonfp, pkg, fsys) ==
    LET root == Dirname(pkgjsonfp)
        dir == root \o <<"/">> \o s_node_modules \o <<"/">> \o pkg \o <<"/">>
        license == dir \o s_LICENSE
        other == FirstExt(license, LicenseExts, DOMAIN fsys)
        pkgjson == dir \o s_package_json
        name == IF pkgjson \in DOMAIN fsys THEN fsys[pkgjson].license ELSE None
    IN IF license \in DOMAIN fsys THEN [ret |-> license, out |-> <<>>]
       ELSE IF other # None THEN [ret |-> other, out |-> <<>>]
       ELSE IF pkgjson \in DOMAIN fsys /\ ~Not(name)
            THEN (IF Lower(name) = s_mit
                  THEN [ret |-> PathJoin(ToolDir, s_mit_license), out |-> <<>>]
                  ELSE IF Lower(name) = s_apache
                  THEN [ret |-> PathJoin(ToolDir, s_apache_license), out |-> <<>>]
                  ELSE [ret |-> name, out |-> <<Printed("license name", name)>>])
       ELSE [ret |-> None, out |-> <<>>]

-----------------------------------------------------------------------------
\* The files main runs on.

p_a_gomod == <<"a","/","g","o",".","m","o","d">>
p_b_gomod == <<"b","/","g","o",".","m","o","d">>
p_z_gomod == <<"z","/","g","o",".","m","o","d">>
p_a_pkgjson == <<"a","/","p","a","c","k","a","g","e",".","j","s","o","n">>
p_b_pkgjson == <<"b","/","p","a","c","k","a","g","e",".","j","s","o","n">>
p_a_notes == <<"a","/","n">>

n_Fo == <<"x","/","F","o">>
n_b == <<"x","/","b">>
n_s == <<"s">>
v2 == <<"v","2">>

\* the texts of the two bundled license files
MitText == <<"M","\n">>
ApacheText == <<"A","\n">>

\* the files every run finds: the manifests, a file that is no manifest, the
\* bundled license texts, the descriptors of the npm packages p, r and s
BaseFiles ==
    Merge(One(p_a_gomod, GoModFile(<<
              <<"m","o","d","u","l","e"," ","m">>,
              <<>>,
              <<"r","e","q","u","i","r","e"," ","(">>,
              <<"\t","x","/","F","o"," ","v","1">>,
              <<"\t","x","/","b"," ","v","2"," ","/","/"," ","i","n","d","i","r","e","c","t">>,
              <<")">> >>)),
    Merge(One(p_b_gomod, GoModFile(<<
              <<"r","e","q","u","i","r","e"," ","(">>,
              <<"\t","x","/","F","o"," ","v","1">>,
              <<")">> >>)),
    Merge(One(p_a_pkgjson, PackageJson(
              [dependencies |-> JDict(<<n_p, n_q, n_s>>),
               devDependencies |-> JDict(<<n_r>>)])),
    Merge(One(p_b_pkgjson, PackageJson([dependencies |-> JDict(<<n_p>>)])),
    Merge(One(p_a_notes, TextFile(<<"n">>)),
    Merge(One(PathJoin(ToolDir, s_mit_license), TextFile(MitText)),
    Merge(One(PathJoin(ToolDir, s_apache_license), TextFile(ApacheText)),
    Merge(One(<<"a","/","n","o","d","e","_","m","o","d","u","l","e","s","/","p","/","p","a","c","k","a","g","e",".","j","s","o","n">>, Descriptor(<<"M","I","T">>)),
    Merge(One(<<"a","/","n","o","d","e","_","m","o","d","u","l","e","s","/","r","/","p","a","c","k","a","g","e",".","j","s","o","n">>, Descriptor(<<"M","i","t">>)),
          One(<<"a","/","n","o","d","e","_","m","o","d","u","l","e","s","/","s","/","p","a","c","k","a","g","e",".","j","s","o","n">>,
              Descriptor(<<"A","p","a","c","h","e","-","2",".","0">>)))))))))))

\* the files a run may or may not find: a license file of each go module in
\* the module cache and of p in node_modules, the descriptor of q (license
\* "ISC"), and a file named ISC in the working directory
n_ISC == <<"I","S","C">>

OptionalFiles ==
    Merge(One(<<"/","c","/","x","/","!","f","o","@","v","1","/","L","I","C","E","N","S","E">>, TextFile(<<"\n","M","\n">>)),
    Merge(One(<<"/","c","/","x","/","b","@","v","2","/","L","I","C","E","N","S","E",".","t","x","t">>, TextFile(<<"G","\n">>)),
    Merge(One(<<"a","/","n","o","d","e","_","m","o","d","u","l","e","s","/","p","/","L","I","C","E","N","S","E">>, TextFile(<<"P">>)),
    Merge(One(<<"a","/","n","o","d","e","_","m","o","d","u","l","e","s","/","q","/","p","a","c","k","a","g","e",".","j","s","o","n">>, Descriptor(n_ISC)),
          One(n_ISC, TextFile(<<"Z">>))))))

ManifestPaths == {p_a_gomod, p_b_gomod, p_z_gomod, p_a_pkgjson, p_b_pkgjson, p_a_notes}

EnvInit ==
    /\ \E present \in SUBSET DOMAIN OptionalFiles :
          fs = Merge(BaseFiles, Restrict(OptionalFiles, present))
    /\ files \in SeqsUpTo(ManifestPaths, MaxFiles)
    /\ ignore_go_pkgs \in {<<>>, <<n_b>>}
    /\ ignore_npm_pkgs \in {<<>>, <<n_q>>}

EnvIdle ==
    /\ fs = <<>>
    /\ files = <<>>
    /\ ignore_go_pkgs = <<>>
    /\ ignore_npm_pkgs = <<>>

-----------------------------------------------------------------------------
\* main

GoItem(pkg, licidx) ==
    [name |-> pkg.name, version |-> pkg.version, tag |-> pkg.tag, licidx |-> licidx]
NpmItem(pkg, licidx) ==
    [name |-> pkg.name, version |-> <<>>, tag |-> pkg.tag, licidx |-> licidx]

\* one entry of the history of locator calls: the manifest, the package, what
\* the filesystem locator returned, the id read_license gave (NoId when the
\* package was not resolved)
Lookup(kind, fp, pkg, lic, lid) ==
    [kind |-> kind, fp |-> fp, name |-> pkg.name, tag |-> pkg.tag,
     lic |-> lic, lid |-> lid]

\* `lics[lic_id] = lic` for every item of ALL_LICENSES, in order: the items of
\* the dict written to licenses.json
RECURSIVE InvertTable(_, _)
InvertTable(table, lics) ==
    IF table = <<>> THEN lics
    ELSE LET e == Head(table)
             put == IF \E i \in 1..Len(lics) : lics[i].id = e.id
                    THEN [i \in 1..Len(lics) |->
                            IF lics[i].id = e.id
                            THEN [lics[i] EXCEPT !.text = e.content] ELSE lics[i]]
                    ELSE Append(lics, [id |-> e.id, text |-> e.content])
         IN InvertTable(Tail(table), put)

\* an element of opensource.deps.html other than a list item
Html(el, text) == [el |-> el, lic |-> NoId, tag |-> "", kind |-> "", name |-> <<text>>]

\* the <li> written for an item
HtmlItem(item, kind) ==
    [el |-> "li", lic |-> item.licidx, tag |-> item.tag, kind |-> kind, name |-> item.name]

HtmlItems(items, kind) == [i \in 1..Len(items) |-> HtmlItem(items[i], kind)]

\* HtmlReport with the two lists written in the other order
HtmlReport_npm_first(gos, npms) ==
    <<Html("h2", "NPM Modules"), Html("ul", "")>> \o HtmlItems(npms, "npm")
    \o <<Html("/ul", ""), Html("h2", "Go Modules"), Html("ul", "")>>
    \o HtmlItems(gos, "go")
    \o <<Html("/ul", ""), Html("p", "notice")>>

\* what main writes to opensource.deps.html
HtmlReport(gos, npms) ==
    <<Html("h2", "Go Modules"), Html("ul", "")>> \o HtmlItems(gos, "go")
    \o <<Html("/ul", ""), Html("h2", "NPM Modules"), Html("ul", "")>>
    \o HtmlItems(npms, "npm")
    \o <<Html("/ul", ""), Html("p", "notice")>>

MainInit ==
    /\ pc = "files"
    /\ err = ""
    /\ fidx = 1
    /\ cur = <<>>
    /\ todo = <<>>
    /\ go_pkgs = <<>>
    /\ npm_pkgs = <<>>
    /\ stdout = <<>>
    /\ written = [licenses_json |-> <<>>, html |-> <<>>]
    /\ lookups = <<>>

\* `if not os.path.isfile(fp): print(...); continue`
MainFileNotFound ==
    /\ pc = "files" /\ fidx <= Len(files)
    /\ files[fidx] \notin DOMAIN fs
    /\ stdout' = Append(stdout, Printed("file not found", files[fidx]))
    /\ fidx' = fidx + 1
    /\ UNCHANGED <<pc, err, cur, todo, go_pkgs, npm_pkgs, written, lookups>>
    /\ UNCHANGED <<gmVars, gfVars, npVars, envVars, tableVars, calls>>

\* `if fp.endswith("go.mod"): for pkg in parse_pkgs_go_mod(...)`: the parse
MainGoMod ==
    /\ pc = "files" /\ fidx <= Len(files)
    /\ files[fidx] \in DOMAIN fs
    /\ EndsWith(files[fidx], s_go_mod)
    /\ LET parsed == parse_pkgs_go_mod(fs[files[fidx]].lines, ignore_go_pkgs)
       IN /\ todo' = parsed
          /\ pc' = IF parsed = <<>> THEN "files" ELSE "go"
    /\ cur' = files[fidx]
    /\ fidx' = fidx + 1
    /\ UNCHANGED <<err, go_pkgs, npm_pkgs, stdout, written, lookups>>
    /\ UNCHANGED <<gmVars, gfVars, npVars, envVars, tableVars, calls>>

\* `elif fp.endswith("package.json"): for pkg in parse_npm_package_json(...)`:
\* the parse, which may raise
MainPackageJson ==
    /\ pc = "files" /\ fidx <= Len(files)
    /\ files[fidx] \in DOMAIN fs
    /\ ~EndsWith(files[fidx], s_go_mod)
    /\ EndsWith(files[fidx], s_package_json)
    /\ LET parsed == parse_npm_package_json(fs[files[fidx]].info, ignore_npm_pkgs)
       IN IF parsed.exc # ""
          THEN /\ pc' = "raised"
               /\ err' = parsed.exc
               /\ todo' = <<>>
          ELSE /\ todo' = parsed.ret
               /\ pc' = IF parsed.ret = <<>> THEN "files" ELSE "npm"
               /\ err' = err
    /\ cur' = files[fidx]
    /\ fidx' = fidx + 1
    /\ UNCHANGED <<go_pkgs, npm_pkgs, stdout, written, lookups>>
    /\ UNCHANGED <<gmVars, gfVars, npVars, envVars, tableVars, calls>>

\* a file that is neither a go.mod nor a package.json: nothing is done with it
MainOtherFile ==
    /\ pc = "files" /\ fidx <= Len(files)
    /\ files[fidx] \in DOMAIN fs
    /\ ~EndsWith(files[fidx], s_go_mod)
    /\ ~EndsWith(files[fidx], s_package_json)
    /\ fidx' = fidx + 1
    /\ UNCHANGED <<pc, err, cur, todo, go_pkgs, npm_pkgs, stdout, written, lookups>>
    /\ UNCHANGED <<gmVars, gfVars, npVars, envVars, tableVars, calls>>

\* The body of a package loop, for the package at the head of todo. fslic is
\* what the filesystem locator returned and net the outcome of the network
\* fallback, called when `not lic`.
ResolvePkg(kind, pkg, fslic, out, net, notfound) ==
    LET lic == IF Not(fslic) THEN net.ret ELSE fslic
        r == read_license(lic, fs, ALL_LICENSES, LINCESE_SEQ)
        next == IF Tail(todo) = <<>> THEN "files" ELSE pc
    IN /\ todo' = Tail(todo)
       /\ IF Not(fslic) /\ net.exc # ""
          THEN \* the fallback raises: main ends with the exception
               /\ pc' = "raised"
               /\ err' = net.exc
               /\ stdout' = stdout \o out
               /\ lookups' = Append(lookups, Lookup(kind, cur, pkg, fslic, NoId))
               /\ UNCHANGED <<go_pkgs, npm_pkgs, tableVars>>
          ELSE IF Not(lic)
          THEN \* `print(... license not found ...); continue`
               /\ pc' = next
               /\ stdout' = stdout \o out \o <<Printed(notfound, pkg.name)>>
               /\ lookups' = Append(lookups, Lookup(kind, cur, pkg, fslic, NoId))
               /\ UNCHANGED <<err, go_pkgs, npm_pkgs, tableVars>>
          ELSE \* `pkgs.append(Item(pkg, read_license(lic)))`
               /\ pc' = next
               /\ stdout' = stdout \o out
               /\ ALL_LICENSES' = r.table
               /\ LINCESE_SEQ' = r.seq
               /\ go_pkgs' = IF kind = "go" THEN Append(go_pkgs, GoItem(pkg, r.lid))
                             ELSE go_pkgs
               /\ npm_pkgs' = IF kind = "npm" THEN Append(npm_pkgs, NpmItem(pkg, r.lid))
                              ELSE npm_pkgs
               /\ lookups' = Append(lookups, Lookup(kind, cur, pkg, fslic, r.lid))
               /\ err' = err

\* one iteration of `for pkg in parse_pkgs_go_mod(fp, ignores=ignore_go_pkgs)`
MainGoPkg ==
    /\ pc = "go" /\ todo # <<>>
    /\ LET pkg == Head(todo)
       IN ResolvePkg("go", pkg,
                     find_go_pkg_license_via_fs(pkg.name, pkg.version, DOMAIN fs),
                     <<>>, fetch_via_network, "go pkg license not found")
    /\ UNCHANGED <<fidx, cur, written>>
    /\ UNCHANGED <<gmVars, gfVars, npVars, envVars, calls>>

\* one iteration of `for pkg in parse_npm_package_json(fp, ignores=ignore_npm_pkgs)`
MainNpmPkg ==
    /\ pc = "npm" /\ todo # <<>>
    /\ LET pkg == Head(todo)
           found == find_npm_pkg_license_via_fs(cur, pkg.name, fs)
       IN ResolvePkg("npm", pkg, found.ret, found.out, fetch_via_network,
                     "npm pkg license not found")
    /\ UNCHANGED <<fidx, cur, written>>
    /\ UNCHANGED <<gmVars, gfVars, npVars, envVars, calls>>

\* after the loop over files: licenses.json and opensource.deps.html are written
MainWrite ==
    /\ pc = "files" /\ fidx > Len(files)
    /\ written' = [licenses_json |-> InvertTable(ALL_LICENSES, <<>>),
                   html |-> HtmlReport(go_pkgs, npm_pkgs)]
    /\ pc' = "done"
    /\ UNCHANGED <<err, fidx, cur, todo, go_pkgs, npm_pkgs, stdout, lookups>>
    /\ UNCHANGED <<gmVars, gfVars, npVars, envVars, tableVars, calls>>

-----------------------------------------------------------------------------
\* Specifications.

\* a run of main
Init == GoModIdle /\ GoFsIdle /\ NpmIdle /\ EnvInit /\ TableInit /\ MainInit /\ calls = <<>>

Next ==
    \/ MainFileNotFound
    \/ MainGoMod
    \/ MainPackageJson
    \/ MainOtherFile
    \/ MainGoPkg
    \/ MainNpmPkg
    \/ MainWrite

Spec == Init /\ [][Next]_vars

\* parse_pkgs_go_mod on any file of at most MaxLines lines
InitGoMod == GoModInit /\ GoFsIdle /\ NpmIdle /\ EnvIdle /\ TableInit /\ MainInit /\ calls = <<>>
NextGoMod == GoModStep
SpecGoMod == InitGoMod /\ [][NextGoMod]_vars

\* find_go_pkg_license_via_fs on any name of at most MaxNameLen characters
InitGoFs == GoModIdle /\ GoFsInit /\ NpmIdle /\ EnvIdle /\ TableInit /\ MainInit /\ calls = <<>>
NextGoFs == GoFsCall
SpecGoFs == InitGoFs /\ [][NextGoFs]_vars

\* parse_npm_package_json on any manifest object
InitNpm == GoModIdle /\ GoFsIdle /\ NpmInit /\ EnvIdle /\ TableInit /\ MainInit /\ calls = <<>>
NextNpm == NpmCall
SpecNpm == InitNpm /\ [][NextNpm]_vars

\* any sequence of at most MaxCalls calls of read_license
InitRead == GoModIdle /\ GoFsIdle /\ NpmIdle /\ ReadInit /\ MainInit
NextRead == ReadCall
SpecRead == InitRead /\ [][NextRead]_vars

-----------------------------------------------------------------------------
\* Claims about parse_pkgs_go_mod (SpecGoMod).

\* the whitespace-separated tokens of a line
RECURSIVE WsTokensFrom(_, _, _)
WsTokensFrom(line, i, tok) ==
    IF i > Len(line) THEN (IF tok = <<>> THEN <<>> ELSE <<tok>>)
    ELSE IF line[i] \in Whitespace
         THEN (IF tok = <<>> THEN <<>> ELSE <<tok>>) \o WsTokensFrom(line, i + 1, <<>>)
         ELSE WsTokensFrom(line, i + 1, Append(tok, line[i]))

WsTokens(line) == WsTokensFrom(line, 1, <<>>)

\* line i is inside a require block: a line starting with `require` precedes
\* it with no closing `)` line in between
InRequireBlock(lines, i) ==
    \E j \in 1..(i - 1) :
        /\ StartsWith(Strip(lines[j]), s_require)
        /\ \A k \in (j + 1)..(i - 1) : Strip(lines[k]) # s_close

\* line i is a line the claim has a record for
IsRecordLine(lines, i) ==
    LET line == Strip(lines[i])
    IN /\ line # <<>>
       /\ ~StartsWith(line, s_comment)
       /\ InRequireBlock(lines, i)
       /\ Len(WsTokens(line)) >= 2

RECURSIVE ClaimedGoPkgs(_, _)
ClaimedGoPkgs(lines, n) ==
    IF n = 0 THEN <<>>
    ELSE ClaimedGoPkgs(lines, n - 1) \o
         (IF IsRecordLine(lines, n)
          THEN LET line == Strip(lines[n])
                   toks == WsTokens(line)
               IN <<GoPkg(toks[1], toks[2],
                          IF EndsWith(line, s_indirect) THEN "indirect" ELSE "direct")>>
          ELSE <<>>)

GoModParsed == gm_i > Len(gm_lines)

\* C4: with an empty ignore-set, the records parse_pkgs_go_mod returns are, in
\* file order, one for each non-blank, non-comment line inside a require block
\* with at least two whitespace-separated tokens (name the first token, version
\* the second, tag by the trailing `// indirect`), and no other.
C4_WhitespaceTokens ==
    (GoModParsed /\ gm_ignores = <<>>) =>
        pkgs = ClaimedGoPkgs(gm_lines, Len(gm_lines))

-----------------------------------------------------------------------------
\* Claims about find_go_pkg_license_via_fs (SpecGoFs).

GoFsReturned == gf_ret # <<"unset">>

\* the first of LICENSE, LICENSE.txt, LICENSE.md that is a file in the
\* directory <cache-root>/<escaped name>@<version>, or None
ClaimedGoLicense ==
    LET dir == GoDirBang(gf_pkg, gf_ver)
    IN IF dir \o s_LICENSE \in gf_files THEN dir \o s_LICENSE
       ELSE IF dir \o s_LICENSE \o s_txt \in gf_files THEN dir \o s_LICENSE \o s_txt
       ELSE IF dir \o s_LICENSE \o s_md \in gf_files THEN dir \o s_LICENSE \o s_md
       ELSE None

\* C6: find_go_pkg_license_via_fs returns the first of LICENSE, LICENSE.txt,
\* LICENSE.md that exists in <cache-root>/<name with every upper-case character
\* replaced by "!" and its lower-case form>@<version>, and None when none does.
C6_GoLocator == GoFsReturned => gf_ret = ClaimedGoLicense

\* a name with an upper-case letter in each of two segments, resolved to the
\* LICENSE.md of the escaped directory while a LICENSE exists in the
\* directories the unescaped and the merely lower-cased name give
C6_Witness ==
    /\ GoFsReturned
    /\ gf_pkg = <<"F", "/", "F">>
    /\ gf_ret = gomodcache \o <<"/","!","f","/","!","f","@","v","1","/">> \o s_LICENSE \o s_md
    /\ GoDirLower(gf_pkg, gf_ver) \o s_LICENSE \in gf_files
    /\ GoDirPlain(gf_pkg, gf_ver) \o s_LICENSE \in gf_files

-----------------------------------------------------------------------------
\* Claims about parse_npm_package_json (SpecNpm).

NpmReturned == np_ret.exc # "unset"

\* the keys of a field of the manifest, none when the field is absent
ClaimedKeys(info, field) == IF field \in DOMAIN info THEN info[field].keys ELSE <<>>

ClaimedNpmPkgs(info, ignores) ==
    NpmRecords(ClaimedKeys(info, "dependencies"), "deps", ignores)
    \o NpmRecords(ClaimedKeys(info, "devDependencies"), "dev-deps", ignores)

\* C3: parse_npm_package_json raises nothing and returns the records of the
\* fields that are present (`dependencies` first, then `devDependencies`), an
\* absent field counting as empty.
C3_AbsentFieldIsEmpty ==
    NpmReturned =>
        /\ np_ret.exc = ""
        /\ np_ret.ret = ClaimedNpmPkgs(np_info, np_ignores)

-----------------------------------------------------------------------------
\* Claims about read_license (SpecRead).

\* the normalized content of an argument: the trimmed text of the file it
\* names, or the argument itself when it names no file
Normalized(fp) == IF fp \in DOMAIN fs THEN Strip(fs[fp].text) ELSE fp

FirstAppearance(j) == \A i \in 1..(j - 1) : Normalized(calls[i].fp) # Normalized(calls[j].fp)

\* C2: two read_license calls return the same id exactly when their normalized
\* contents are equal; a content's first call returns the next integer (2 for
\* the first content), greater than every id before it, and adds one table
\* entry; a repeated content returns its earlier id and adds none.
C2_LicenseIds ==
    /\ \A i, j \in 1..Len(calls) :
          (calls[i].lid = calls[j].lid) <=> (Normalized(calls[i].fp) = Normalized(calls[j].fp))
    /\ \A j \in 1..Len(calls) :
          IF FirstAppearance(j)
          THEN /\ calls[j].lid = 2 + Cardinality({Normalized(calls[i].fp) : i \in 1..(j - 1)})
               /\ \A i \in 1..(j - 1) : calls[i].lid < calls[j].lid
               /\ calls[j].after = calls[j].before + 1
          ELSE calls[j].after = calls[j].before

\* two files whose texts differ in surrounding whitespace only share id 2 and
\* a third content gets id 3
C2_Witness ==
    /\ Len(calls) = 3
    /\ {f_1, f_2, f_3} \subseteq DOMAIN fs
    /\ calls[1].fp = f_1 /\ calls[1].lid = 2
    /\ calls[2].fp = f_3 /\ calls[2].lid = 3
    /\ calls[3].fp = f_2 /\ calls[3].lid = 2
    /\ Len(ALL_LICENSES) = 2

-----------------------------------------------------------------------------
\* Claims about main (Spec).

\* the content the table holds under an id
ContentOf(lid) ==
    ALL_LICENSES[CHOOSE i \in 1..Len(ALL_LICENSES) : ALL_LICENSES[i].id = lid].content

\* the elements between the n-th <ul> and the n-th </ul> of a report
NthIndex(html, el, n) ==
    CHOOSE i \in 1..Len(html) :
        html[i].el = el /\ Cardinality({j \in 1..i : html[j].el = el}) = n

ListItems(html, n) ==
    SubSeq(html, NthIndex(html, "ul", n) + 1, NthIndex(html, "/ul", n) - 1)

Resolved(kind) == SelectSeq(lookups, LAMBDA l : l.kind = kind /\ l.lid # NoId)

NotFoundLine(l) ==
    Printed(IF l.kind = "go" THEN "go pkg license not found"
            ELSE "npm pkg license not found", l.name)

\* C1: a dependency the filesystem locator finds no license for gets a
\* diagnostic, is not added to the resolved set, and the run goes on (it does
\* not end with an exception).
C1_UnresolvedIsRecoverable ==
    \A i \in 1..Len(lookups) :
        Not(lookups[i].lic) =>
            /\ lookups[i].lid = NoId
            /\ NotFoundLine(lookups[i]) \in Range(stdout)
            /\ pc # "raised"

\* the kind of the manifest whose packages todo holds
CurKind == IF EndsWith(cur, s_go_mod) THEN "go" ELSE "npm"

Ignored(kind, name) ==
    name \in Range(IF kind = "go" THEN ignore_go_pkgs ELSE ignore_npm_pkgs)

\* C5: a dependency named in the ignore-list of its manifest kind is in no
\* parsed record list, is passed to no locator and to no read_license call, is
\* no item of opensource.deps.html, and every entry of licenses.json is the
\* content of a dependency that is not ignored.
C5_IgnoredNeverAppears ==
    /\ \A i \in 1..Len(todo) : ~Ignored(CurKind, todo[i].name)
    /\ \A i \in 1..Len(lookups) : ~Ignored(lookups[i].kind, lookups[i].name)
    /\ \A i \in 1..Len(go_pkgs) : ~Ignored("go", go_pkgs[i].name)
    /\ \A i \in 1..Len(npm_pkgs) : ~Ignored("npm", npm_pkgs[i].name)
    /\ \A i \in 1..Len(written.html) :
          written.html[i].el = "li" => ~Ignored(written.html[i].kind, written.html[i].name)
    /\ \A i \in 1..Len(written.licenses_json) :
          \E k \in 1..Len(lookups) :
              /\ lookups[k].lid = written.licenses_json[i].id
              /\ ContentOf(lookups[k].lid) = written.licenses_json[i].text
              /\ ~Ignored(lookups[k].kind, lookups[k].name)

\* a completed run over a go.mod and a package.json, each naming an ignored
\* dependency whose license the locator would have found
C5_Witness ==
    /\ pc = "done"
    /\ files = <<p_a_gomod, p_a_pkgjson>>
    /\ ignore_go_pkgs = <<n_b>> /\ ignore_npm_pkgs = <<n_q>>
    /\ find_go_pkg_license_via_fs(n_b, v2, DOMAIN fs) # None
    /\ find_npm_pkg_license_via_fs(p_a_pkgjson, n_q, fs).ret # None
    /\ Len(go_pkgs) = 1 /\ Len(npm_pkgs) = 3
    /\ Len(written.licenses_json) >= 2

\* the installed directory of the package of an npm lookup, its package
\* descriptor's license field, and the LICENSE files in it
NpmDir(l) == Dirname(l.fp) \o <<"/">> \o s_node_modules \o <<"/">> \o l.name \o <<"/">>

HasLicenseFile(l) == \E n \in LicenseNames : (NpmDir(l) \o n) \in DOMAIN fs

FirstLicenseFile(l) ==
    IF NpmDir(l) \o s_LICENSE \in DOMAIN fs THEN NpmDir(l) \o s_LICENSE
    ELSE IF NpmDir(l) \o s_LICENSE \o s_txt \in DOMAIN fs THEN NpmDir(l) \o s_LICENSE \o s_txt
    ELSE NpmDir(l) \o s_LICENSE \o s_md

DescriptorLicense(l) ==
    IF NpmDir(l) \o s_package_json \in DOMAIN fs
    THEN fs[NpmDir(l) \o s_package_json].license ELSE None

\* no LICENSE file, and a license field equal to canon in some letter case
IsNamed(l, canon) ==
    /\ ~HasLicenseFile(l)
    /\ DescriptorLicense(l) # None
    /\ Lower(DescriptorLicense(l)) = canon

\* no LICENSE file, and a license field with another, non-empty value
IsRawName(l) ==
    /\ ~HasLicenseFile(l)
    /\ ~Not(DescriptorLicense(l))
    /\ Lower(DescriptorLicense(l)) \notin {s_mit, s_apache}

\* C7: an npm dependency with no LICENSE file and a license field `mit`
\* (`apache-2.0`) in any letter case is interned under the trimmed text of the
\* bundled MIT (Apache-2.0) file, so all of them share one id; with a LICENSE
\* file, the first of LICENSE, LICENSE.txt, LICENSE.md is what is interned.
C7_CanonicalText ==
    /\ \A i \in 1..Len(lookups) :
          LET l == lookups[i]
          IN l.kind = "npm" =>
               /\ IsNamed(l, s_mit) =>
                     l.lid # NoId /\ ContentOf(l.lid) = Strip(MitText)
               /\ IsNamed(l, s_apache) =>
                     l.lid # NoId /\ ContentOf(l.lid) = Strip(ApacheText)
               /\ HasLicenseFile(l) =>
                     /\ l.lic = FirstLicenseFile(l)
                     /\ l.lid # NoId
                     /\ ContentOf(l.lid) = Strip(fs[l.lic].text)
    /\ \A i, j \in 1..Len(lookups) :
          \A canon \in {s_mit, s_apache} :
              (/\ lookups[i].kind = "npm" /\ lookups[j].kind = "npm"
               /\ IsNamed(lookups[i], canon) /\ IsNamed(lookups[j], canon))
              => lookups[i].lid = lookups[j].lid

\* p (license "MIT") and r (license "Mit") resolved to one id, s to the
\* Apache text, in a run where p has no LICENSE file; and a run where it has
C7_Witness ==
    /\ Len(lookups) = 4
    /\ lookups[1].name = n_p /\ IsNamed(lookups[1], s_mit)
    /\ lookups[3].name = n_s /\ IsNamed(lookups[3], s_apache)
    /\ lookups[4].name = n_r /\ IsNamed(lookups[4], s_mit)
    /\ lookups[1].lid = lookups[4].lid
    /\ lookups[3].lid # lookups[1].lid

\* C9: a raw license name returned by the locator is the content key verbatim
\* whatever files exist, and a path returned by the locator is keyed by the
\* trimmed text of its file, never by the path.
C9_RawNameVerbatim ==
    \A i \in 1..Len(lookups) :
        LET l == lookups[i]
        IN (l.kind = "npm" /\ l.lid # NoId) =>
             /\ IsRawName(l) => ContentOf(l.lid) = DescriptorLicense(l)
             /\ ~IsRawName(l) =>
                   /\ ContentOf(l.lid) = Strip(fs[l.lic].text)
                   /\ ContentOf(l.lid) # l.lic

\* the records of the manifests of one kind among the first n files, in order
RECURSIVE ParsedInOrder(_, _)
ParsedInOrder(kind, n) ==
    IF n = 0 THEN <<>>
    ELSE LET fp == files[n]
             recs == IF fp \notin DOMAIN fs THEN <<>>
                     ELSE IF EndsWith(fp, s_go_mod)
                     THEN (IF kind = "go"
                           THEN parse_pkgs_go_mod(fs[fp].lines, ignore_go_pkgs) ELSE <<>>)
                     ELSE IF EndsWith(fp, s_package_json) /\ kind = "npm"
                     THEN parse_npm_package_json(fs[fp].info, ignore_npm_pkgs).ret
                     ELSE <<>>
         IN ParsedInOrder(kind, n - 1) \o [i \in 1..Len(recs) |-> <<recs[i].name, recs[i].tag>>]

ItemOf(l) == [el |-> "li", lic |-> l.lid, tag |-> l.tag, kind |-> l.kind, name |-> l.name]

ItemsOf(ls) == [i \in 1..Len(ls) |-> ItemOf(ls[i])]

NameTags(ls) == [i \in 1..Len(ls) |-> <<ls[i].name, ls[i].tag>>]

\* C8: opensource.deps.html holds two lists, the go list first; the items of
\* each are the resolved dependencies of its kind, in the order they were
\* resolved, which is the order of the manifests on the command line and
\* within a manifest the order of the parser's records; nothing is merged.
C8_ReportOrder ==
    pc = "done" =>
        LET html == written.html
        IN /\ Cardinality({i \in 1..Len(html) : html[i].el = "ul"}) = 2
           /\ Cardinality({i \in 1..Len(html) : html[i].el = "li"})
                = Len(ListItems(html, 1)) + Len(ListItems(html, 2))
           /\ ListItems(html, 1) = ItemsOf(Resolved("go"))
           /\ ListItems(html, 2) = ItemsOf(Resolved("npm"))
           /\ NameTags(Resolved("go")) = ParsedInOrder("go", Len(files))
           /\ NameTags(Resolved("npm")) = ParsedInOrder("npm", Len(files))

\* a package.json given before a go.mod: the go list still comes first
C8_Witness ==
    /\ pc = "done"
    /\ files = <<p_a_pkgjson, p_a_gomod>>
    /\ Len(ListItems(written.html, 1)) = 2
    /\ Len(ListItems(written.html, 2)) = 4
    /\ ListItems(written.html, 1)[1].name = n_Fo
    /\ ListItems(written.html, 2)[1].name = n_p

\* C10: after a completed run the ids of licenses.json are the ids the items
\* of opensource.deps.html carry, the table gives distinct contents distinct
\* ids, and licenses.json has an entry for every entry of the table.
C10_TableMatchesReport ==
    pc = "done" =>
        LET json == written.licenses_json
            html == written.html
        IN /\ {json[i].id : i \in 1..Len(json)}
                = {html[i].lic : i \in {k \in 1..Len(html) : html[k].el = "li"}}
           /\ \A i, j \in 1..Len(ALL_LICENSES) :
                 i # j => /\ ALL_LICENSES[i].id # ALL_LICENSES[j].id
                          /\ ALL_LICENSES[i].content # ALL_LICENSES[j].content
           /\ Len(json) = Len(ALL_LICENSES)
           /\ \A i \in 1..Len(ALL_LICENSES) :
                 \E k \in 1..Len(json) :
                     json[k].id = ALL_LICENSES[i].id /\ json[k].text = ALL_LICENSES[i].content

\* a completed run with more items than licenses: contents were shared
C10_Witness ==
    /\ pc = "done"
    /\ Len(written.licenses_json) = 3
    /\ Len(go_pkgs) + Len(npm_pkgs) = 5

====
